---------------------------- MODULE Spec2Model ----------------------------
(***************************************************************************)
(* LightBnB_WebApp/server/database.js: the six promise-returning query     *)
(* functions, the pool they share, and the database that answers them.     *)
(*                                                                         *)
(* A call is followed from the function that builds its statement and      *)
(* hands it to pool.query, over the pool's answer (rows or an error), to   *)
(* the .then / .catch callbacks that shape the value the returned promise  *)
(* settles with.  SQL text is a sequence of tokens; the database parses    *)
(* the tokens and evaluates the statement against its tables.              *)
(***************************************************************************)
EXTENDS Integers, Sequences, FiniteSets, TLC

VARIABLES
    users,             \* table users: set of rows
    properties,        \* table properties: set of rows
    reservations,      \* table reservations: set of rows
    property_reviews,  \* table property_reviews: set of rows
    calls,             \* CallIds -> the call's record (see IdleCall)
    clock              \* number of statements the database has executed

vars == <<users, properties, reservations, property_reviews, calls, clock>>

---------------------------------------------------------------------------
(* Bounds of the model *)

MaxCalls == 2          \* calls issued in one behaviour
MaxPrice == 2          \* price options range over 0..MaxPrice (whole units)
MaxReservations == 16  \* rows of the reservations table in SpecReservations

---------------------------------------------------------------------------
(* JavaScript values *)

Undefined == [kind |-> "undefined"]
Null == [kind |-> "null"]
Num(n) == [kind |-> "number", n |-> n]
Str(s) == [kind |-> "string", chars |-> s]
Obj(r) == [kind |-> "object", row |-> r]
Arr(s) == [kind |-> "array", rows |-> s]

\* ToBoolean, as applied by `if (x)` and `!x`
Truthy(v) ==
    CASE v.kind = "undefined" -> FALSE
      [] v.kind = "null" -> FALSE
      [] v.kind = "number" -> v.n # 0
      [] v.kind = "string" -> v.chars # <<>>
      [] OTHER -> TRUE

Digits == <<"0", "1", "2", "3", "4", "5", "6", "7", "8", "9">>

RECURSIVE NumToChars(_)
NumToChars(n) ==
    IF n < 10 THEN <<Digits[n + 1]>>
    ELSE NumToChars(n \div 10) \o <<Digits[(n % 10) + 1]>>

\* `${v}` for a number or a string
TemplateString(v) ==
    IF v.kind = "number" THEN Str(NumToChars(v.n)) ELSE Str(v.chars)

\* (mutant) a default of 20
getAllReservationsLimitTwenty == 10 + 10

\* `limit = 10` in the parameter lists of getAllReservations and getAllProperties
getAllReservationsLimit == 10
getAllPropertiesLimit == 10

\* a default parameter value applies when the argument is undefined
WithDefault(arg, default) == IF arg.kind = "undefined" THEN Num(default) ELSE arg

---------------------------------------------------------------------------
(* SQL text: sequences of tokens *)

Placeholders == <<"$1", "$2", "$3", "$4", "$5", "$6", "$7", "$8", "$9", "$10",
                  "$11", "$12", "$13", "$14", "$15", "$16", "$17", "$18">>

Placeholder(n) == Placeholders[n]

IsPlaceholder(tok) == \E n \in 1..Len(Placeholders) : Placeholders[n] = tok

PlaceholderIndex(tok) == CHOOSE n \in 1..Len(Placeholders) : Placeholders[n] = tok

getUserWithEmailSQL ==
    <<"SELECT id, name, email, password", "FROM users",
      "WHERE", "email", "=", "$1">>

getUserWithIdSQL ==
    <<"SELECT id, name, email, password", "FROM users",
      "WHERE", "id", "=", "$1">>

addUserSQL ==
    <<"INSERT INTO users", "name", "password", "email",
      "VALUES", "$1", "$2", "$3", "RETURNING *">>

getAllReservationsSQL ==
    <<"SELECT reservations.id AS res_id, properties.*, start_date, end_date, AVG(rating) AS average_rating",
      "FROM reservations",
      "JOIN properties ON reservations.property_id = properties.id",
      "JOIN property_reviews ON properties.id = property_reviews.property_id",
      "WHERE", "reservations.guest_id", "=", "$1",
      "GROUP BY properties.id, reservations.id",
      "ORDER BY reservations.start_date",
      "LIMIT", "$2">>

propertyValues ==
    <<"owner_id", "title", "description", "thumbnail_photo_url",
      "cover_photo_url", "cost_per_night", "street", "city", "province",
      "post_code", "country", "parking_spaces", "number_of_bathrooms",
      "number_of_bedrooms">>

addPropertySQL ==
    <<"INSERT INTO properties">> \o propertyValues \o <<"VALUES">>
      \o [i \in 1..14 |-> Placeholder(i)] \o <<"RETURNING *">>

getAllPropertiesHead ==
    <<"SELECT properties.*, AVG(property_reviews.rating) AS average_rating",
      "FROM properties",
      "JOIN property_reviews ON properties.id = property_id">>


---------------------------------------------------------------------------
(* getAllProperties: the statement and its parameter list, built step by   *)
(* step.  A build state is [queryParams, whereAnd, queryString].           *)

\* (mutant) queryParams kept outside the function: a call starts from the
\* parameters the latest getAllProperties call left in it
sharedQueryParams ==
    LET earlier == {c \in DOMAIN calls : calls[c].op = "getAllProperties"}
    IN  IF earlier = {} THEN <<>>
        ELSE calls[CHOOSE c \in earlier : \A d \in earlier : d <= c].values

newQueryParams == <<>>

\* (mutant) WHERE written into the head, the conditions all joined by AND
initialQueryWithWhere ==
    [queryParams |-> newQueryParams,
     whereAnd    |-> "AND",
     queryString |-> getAllPropertiesHead \o <<"WHERE">>]

initialQuery ==
    [queryParams |-> newQueryParams,
     whereAnd    |-> "WHERE",
     queryString |-> getAllPropertiesHead]

ownerIdFilter(q, options) ==
    IF Truthy(options.owner_id)
    THEN LET params == Append(q.queryParams, TemplateString(options.owner_id))
         IN  [q EXCEPT !.queryParams = params,
                       !.queryString = @ \o <<q.whereAnd, "owner_id", "=",
                                              Placeholder(Len(params))>>]
    ELSE q

\* (mutant) the placeholder is written but the value is not pushed
cityFilterNoPush(q, options) ==
    IF Truthy(options.city)
    THEN [q EXCEPT !.queryString = @ \o <<q.whereAnd, "city", "LIKE",
                                           Placeholder(Len(q.queryParams) + 1)>>,
                   !.whereAnd = "AND"]
    ELSE q

cityFilter(q, options) ==
    IF Truthy(options.city)
    THEN LET params == Append(q.queryParams,
                              Str(<<"%">> \o TemplateString(options.city).chars \o <<"%">>))
         IN  [q EXCEPT !.queryParams = params,
                       !.queryString = @ \o <<q.whereAnd, "city", "LIKE",
                                              Placeholder(Len(params))>>,
                       !.whereAnd = "AND"]
    ELSE q

minimumPriceFilter(q, options) ==
    IF Truthy(options.minimum_price_per_night)
    THEN LET params == Append(q.queryParams,
                              TemplateString(options.minimum_price_per_night))
         IN  [q EXCEPT !.queryParams = params,
                       !.queryString = @ \o <<q.whereAnd, "cost_per_night / 100", ">",
                                              Placeholder(Len(params))>>,
                       !.whereAnd = "AND"]
    ELSE q

maximumPriceFilter(q, options) ==
    IF Truthy(options.maximum_price_per_night)
    THEN LET params == Append(q.queryParams,
                              TemplateString(options.maximum_price_per_night))
         IN  [q EXCEPT !.queryParams = params,
                       !.queryString = @ \o <<q.whereAnd, "cost_per_night / 100", "<",
                                              Placeholder(Len(params))>>]
    ELSE q

groupBy(q) ==
    [q EXCEPT !.queryString = @ \o <<"GROUP BY properties.id">>]

minimumRatingFilter(q, options) ==
    IF Truthy(options.minimum_rating)
    THEN LET params == Append(q.queryParams, TemplateString(options.minimum_rating))
         IN  [q EXCEPT !.queryParams = params,
                       !.queryString = @ \o <<"HAVING", "AVG(property_reviews.rating)",
                                              ">=", Placeholder(Len(params))>>]
    ELSE q

limitClause(q, limit) ==
    LET params == Append(q.queryParams, limit)
    IN  [q EXCEPT !.queryParams = params,
                  !.queryString = @ \o <<"ORDER BY cost_per_night", "LIMIT",
                                         Placeholder(Len(params))>>]

getAllPropertiesQuery(options, limit) ==
    LET q1 == ownerIdFilter(initialQuery, options)
        q2 == cityFilter(q1, options)
        q3 == minimumPriceFilter(q2, options)
        q4 == maximumPriceFilter(q3, options)
        q5 == groupBy(q4)
        q6 == minimumRatingFilter(q5, options)
        q7 == limitClause(q6, WithDefault(limit, getAllPropertiesLimit))
    IN  [text |-> q7.queryString, values |-> q7.queryParams]

---------------------------------------------------------------------------
(* The statements of the five fixed-text functions *)

getUserWithEmailQuery(email) ==
    [text |-> getUserWithEmailSQL, values |-> <<email>>]

getUserWithIdQuery(id) ==
    [text |-> getUserWithIdSQL, values |-> <<id>>]

\* (mutant) name and password in the wrong order
addUserValuesSwapped(user) == <<user.password, user.name, user.email>>

addUserValues(user) == <<user.name, user.password, user.email>>

addUserQuery(user) ==
    [text |-> addUserSQL, values |-> addUserValues(user)]

getAllReservationsQuery(guest_id, limit) ==
    [text |-> getAllReservationsSQL, values |-> <<guest_id, WithDefault(limit, getAllReservationsLimit)>>]

\* property[value]: a key the object lacks reads as undefined
addPropertyValues(property) ==
    [i \in 1..Len(propertyValues) |->
        IF propertyValues[i] \in DOMAIN property
        THEN property[propertyValues[i]] ELSE Undefined]

addPropertyQuery(property) ==
    [text |-> addPropertySQL, values |-> addPropertyValues(property)]

---------------------------------------------------------------------------
(* The database: parameter binding *)

Tok(text, i) == IF i \in 1..Len(text) THEN text[i] ELSE ""

DigitValue(ch) == (CHOOSE d \in 1..10 : Digits[d] = ch) - 1

IsNumeric(chars) ==
    /\ chars # <<>>
    /\ \A i \in 1..Len(chars) : \E d \in 1..10 : Digits[d] = chars[i]

RECURSIVE CharsToNum(_)
CharsToNum(chars) ==
    IF Len(chars) = 1 THEN DigitValue(chars[1])
    ELSE 10 * CharsToNum(SubSeq(chars, 1, Len(chars) - 1))
         + DigitValue(chars[Len(chars)])

\* a parameter bound where the statement wants an integer
IsInteger(v) ==
    \/ v.kind = "number"
    \/ v.kind = "string" /\ IsNumeric(v.chars)

AsInteger(v) == IF v.kind = "number" THEN v.n ELSE CharsToNum(v.chars)

\* a JavaScript value stored in a column: undefined and null are NULL
AsColumn(v) == IF v.kind \in {"undefined", "null"} THEN Null ELSE v

\* the placeholders the statement text uses
PlaceholdersOf(text) ==
    {PlaceholderIndex(text[i]) : i \in {j \in 1..Len(text) : IsPlaceholder(text[j])}}

\* the driver refuses a statement whose placeholders and values differ in number
BindOk(text, values) == PlaceholdersOf(text) = 1..Len(values)

\* s LIKE pattern, % matching any run of characters
RECURSIVE Like(_, _)
Like(s, pattern) ==
    IF pattern = <<>> THEN s = <<>>
    ELSE IF Head(pattern) = "%"
         THEN \/ Like(s, Tail(pattern))
              \/ s # <<>> /\ Like(Tail(s), pattern)
         ELSE /\ s # <<>>
              /\ Head(s) = Head(pattern)
              /\ Like(Tail(s), Tail(pattern))

Compare(a, op, b) ==
    CASE op = "=" -> a = b
      [] op = ">" -> a > b
      [] op = "<" -> a < b
      [] op = ">=" -> a >= b
      [] OTHER -> FALSE

---------------------------------------------------------------------------
(* The database: result shaping *)

RECURSIVE SumRatings(_)
SumRatings(revs) ==
    IF revs = {} THEN 0
    ELSE LET r == CHOOSE x \in revs : TRUE
         IN  r.rating + SumRatings(revs \ {r})

ReviewsOf(pid) == {r \in property_reviews : r.property_id = pid}

\* AVG(rating) over a group, kept exact as sum and count
AvgRating(pid) ==
    [sum |-> SumRatings(ReviewsOf(pid)), count |-> Cardinality(ReviewsOf(pid))]

RowMerge(row, extra) ==
    [c \in DOMAIN row \cup DOMAIN extra |->
        IF c \in DOMAIN extra THEN extra[c] ELSE row[c]]

\* ORDER BY key: every order of the [key, row] pairs that is non-decreasing
\* in key (rows with equal keys come in any order)
RECURSIVE OrderBy(_)
OrderBy(S) ==
    IF S = {} THEN {<<>>}
    ELSE LET first == {x \in S : \A y \in S : x.key <= y.key}
         IN  UNION {{<<x.row>> \o rest : rest \in OrderBy(S \ {x})} : x \in first}

Limit(rows, n) == SubSeq(rows, 1, IF n < Len(rows) THEN n ELSE Len(rows))

\* a serial primary key: rows are never deleted, so one past the largest
NextId(ids) ==
    IF ids = {} THEN 1
    ELSE 1 + (CHOOSE m \in ids : \A i \in ids : i <= m)

Answer(rows) ==
    [ok |-> TRUE, rows |-> rows, err |-> "", users |-> users, properties |-> properties]

Failure(message) ==
    [ok |-> FALSE, rows |-> <<>>, err |-> message, users |-> users, properties |-> properties]

---------------------------------------------------------------------------
(* The database: the statements *)

\* users.email is unique: the database refuses a second row with the email
UsersEmailUnique == TRUE

ColumnValue(cols, phs, values, c) ==
    values[PlaceholderIndex(phs[CHOOSE i \in 1..Len(cols) : cols[i] = c])]

SetOf(seq) == {seq[i] : i \in 1..Len(seq)}

\* SELECT id, name, email, password FROM users WHERE <col> = $1
SelectUser(text, values) ==
    LET col == text[4]
        found == {u \in users : u[col] = values[PlaceholderIndex(text[6])]}
    IN  {Answer(rows) : rows \in OrderBy({[key |-> 0, row |-> u] : u \in found})}

\* INSERT INTO users(name, password, email) VALUES($1, $2, $3) RETURNING *
InsertUser(text, values) ==
    LET cols == SubSeq(text, 2, 4)
        phs == SubSeq(text, 6, 8)
        row == [c \in {"id"} \cup SetOf(cols) |->
                   IF c = "id" THEN NextId({u.id : u \in users})
                   ELSE ColumnValue(cols, phs, values, c)]
    IN  IF UsersEmailUnique /\ \E u \in users : u.email = row.email
        THEN {Failure("duplicate key value violates unique constraint")}
        ELSE {[ok |-> TRUE, rows |-> <<row>>, err |-> "",
               users |-> users \cup {row}, properties |-> properties]}

\* INSERT INTO properties(<14 columns>) VALUES($1 .. $14) RETURNING *
InsertProperty(text, values) ==
    LET n == Len(propertyValues)
        cols == SubSeq(text, 2, n + 1)
        phs == SubSeq(text, n + 3, 2 * n + 2)
        row == [c \in {"id"} \cup SetOf(cols) |->
                   IF c = "id" THEN Num(NextId({p.id.n : p \in properties}))
                   ELSE AsColumn(ColumnValue(cols, phs, values, c))]
    IN  {[ok |-> TRUE, rows |-> <<row>>, err |-> "",
          users |-> users, properties |-> properties \cup {row}]}

\* the reservations of guest $1 joined to their property and its reviews,
\* one row per (property, reservation), by start_date, at most $2 rows
SelectReservations(text, values) ==
    IF ~(IsInteger(values[1]) /\ IsInteger(values[2]))
    THEN {Failure("invalid input syntax for type integer")}
    ELSE
    LET guest == AsInteger(values[1])
        groups == {g \in reservations \X properties :
                      /\ g[1].guest_id = guest
                      /\ g[2].id = Num(g[1].property_id)
                      /\ ReviewsOf(g[1].property_id) # {}}
        rowOf(g) == RowMerge(g[2], [res_id |-> g[1].id,
                                    start_date |-> g[1].start_date,
                                    end_date |-> g[1].end_date,
                                    average_rating |-> AvgRating(g[1].property_id)])
    IN  {Answer(Limit(rows, AsInteger(values[2]))) :
            rows \in OrderBy({[key |-> g[1].start_date, row |-> rowOf(g)] : g \in groups})}

\* <column> <operator> $k at token i
IsCondition(text, i) ==
    /\ Tok(text, i) \in {"owner_id", "city", "cost_per_night / 100"}
    /\ Tok(text, i + 1) \in {"=", "LIKE", ">", "<"}
    /\ IsPlaceholder(Tok(text, i + 2))

\* conditions joined by AND, the first at token i; next is the token after them
RECURSIVE ParseConditions(_, _)
ParseConditions(text, i) ==
    IF ~IsCondition(text, i)
    THEN [ok |-> FALSE, conds |-> <<>>, next |-> i]
    ELSE LET c == [col |-> text[i], op |-> text[i + 1],
                   ph |-> PlaceholderIndex(text[i + 2])]
         IN  IF Tok(text, i + 3) = "AND"
             THEN LET rest == ParseConditions(text, i + 4)
                  IN  [ok |-> rest.ok, conds |-> <<c>> \o rest.conds, next |-> rest.next]
             ELSE [ok |-> TRUE, conds |-> <<c>>, next |-> i + 3]

\* SELECT ... FROM properties JOIN property_reviews ... [WHERE c AND c ...]
\* GROUP BY properties.id [HAVING AVG(..) >= $k] ORDER BY cost_per_night LIMIT $k
ParseSelectProperties(text) ==
    LET i == Len(getAllPropertiesHead) + 1
        where == IF Tok(text, i) = "WHERE" THEN ParseConditions(text, i + 1)
                 ELSE [ok |-> TRUE, conds |-> <<>>, next |-> i]
        g == where.next
        hasHaving == Tok(text, g + 1) = "HAVING"
        havingOk == ~hasHaving \/
                    /\ Tok(text, g + 2) = "AVG(property_reviews.rating)"
                    /\ Tok(text, g + 3) = ">="
                    /\ IsPlaceholder(Tok(text, g + 4))
        o == IF hasHaving THEN g + 5 ELSE g + 1
    IN  [ok |-> /\ where.ok
                /\ Tok(text, g) = "GROUP BY properties.id"
                /\ havingOk
                /\ Tok(text, o) = "ORDER BY cost_per_night"
                /\ Tok(text, o + 1) = "LIMIT"
                /\ IsPlaceholder(Tok(text, o + 2))
                /\ Len(text) = o + 2,
         where |-> where.conds,
         having |-> IF hasHaving /\ havingOk
                    THEN <<PlaceholderIndex(Tok(text, g + 4))>> ELSE <<>>,
         limit |-> IF IsPlaceholder(Tok(text, o + 2))
                   THEN PlaceholderIndex(Tok(text, o + 2)) ELSE 0]

\* the parameters the parsed statement compares with integers
IntegerParams(stmt) ==
    {stmt.where[k].ph : k \in {j \in 1..Len(stmt.where) : stmt.where[j].col # "city"}}
        \cup SetOf(stmt.having) \cup {stmt.limit}

\* one condition of the WHERE clause on a properties row (NULL is no match)
Matches(row, c, values) ==
    CASE c.col = "owner_id" ->
            /\ row.owner_id.kind = "number"
            /\ Compare(row.owner_id.n, c.op, AsInteger(values[c.ph]))
      [] c.col = "cost_per_night / 100" ->
            /\ row.cost_per_night.kind = "number"
            /\ Compare(row.cost_per_night.n \div 100, c.op, AsInteger(values[c.ph]))
      [] c.col = "city" ->
            /\ row.city.kind = "string"
            /\ values[c.ph].kind = "string"
            /\ IF c.op = "LIKE" THEN Like(row.city.chars, values[c.ph].chars)
               ELSE c.op = "=" /\ row.city.chars = values[c.ph].chars
      [] OTHER -> FALSE

\* ORDER BY cost_per_night puts NULL last
CostKey(row) ==
    IF row.cost_per_night.kind = "number" THEN row.cost_per_night.n ELSE 1000000

SelectProperties(text, values) ==
    LET stmt == ParseSelectProperties(text)
    IN  IF ~stmt.ok THEN {Failure("syntax error")}
        ELSE IF \E k \in IntegerParams(stmt) : ~IsInteger(values[k])
        THEN {Failure("invalid input syntax for type integer")}
        ELSE
        LET found == {p \in properties :
                         /\ ReviewsOf(p.id.n) # {}
                         /\ \A k \in 1..Len(stmt.where) : Matches(p, stmt.where[k], values)
                         /\ \A k \in 1..Len(stmt.having) :
                               AvgRating(p.id.n).sum >=
                                   AsInteger(values[stmt.having[k]]) * AvgRating(p.id.n).count}
            rowOf(p) == RowMerge(p, [average_rating |-> AvgRating(p.id.n)])
        IN  {Answer(Limit(rows, AsInteger(values[stmt.limit]))) :
                rows \in OrderBy({[key |-> CostKey(p), row |-> rowOf(p)] : p \in found})}

\* what the database may answer to a statement, against the tables as they are
Execute(text, values) ==
    IF ~BindOk(text, values)
    THEN {Failure("bind message supplies the wrong number of parameters")}
    ELSE CASE text \in {getUserWithEmailSQL, getUserWithIdSQL} -> SelectUser(text, values)
           [] text = addUserSQL -> InsertUser(text, values)
           [] text = addPropertySQL -> InsertProperty(text, values)
           [] text = getAllReservationsSQL -> SelectReservations(text, values)
           [] SubSeq(text, 1, Len(getAllPropertiesHead)) = getAllPropertiesHead ->
                  SelectProperties(text, values)
           [] OTHER -> {Failure("syntax error")}

---------------------------------------------------------------------------
(* The callbacks attached to pool.query's promise.  A callback's result is *)
(* [throws, value, message, log]: it returns value or throws               *)
(* Error(message), and log is what it wrote to the console.                *)

Returns(v) == [throws |-> FALSE, value |-> v, message |-> "", log |-> <<>>]
Throws(m) == [throws |-> TRUE, value |-> Undefined, message |-> m, log |-> <<>>]

\* res.rows[0]: undefined when there is no row
FirstRow(rows) == IF rows = <<>> THEN Undefined ELSE Obj(rows[1])

\* (mutant) no check for a missing row
getUserWithEmailThenNoCheck(rows) == Returns(FirstRow(rows))

getUserWithEmailThen(rows) ==
    IF ~Truthy(FirstRow(rows)) THEN Throws("Invalid email address")
    ELSE Returns(FirstRow(rows))

\* (mutant) no check for a missing row
getUserWithIdThenNoCheck(rows) == Returns(FirstRow(rows))

getUserWithIdThen(rows) ==
    IF ~Truthy(FirstRow(rows)) THEN Throws("Invalid user id")
    ELSE Returns(FirstRow(rows))

addUserThen(rows) == Returns(FirstRow(rows))

getAllReservationsThen(rows) == Returns(Arr(rows))

getAllPropertiesThen(rows) == Returns(Arr(rows))

addPropertyThen(rows) == Returns(FirstRow(rows))

\* (mutant) the error is logged and thrown again
catchRethrow(message) ==
    [throws |-> TRUE, value |-> Undefined, message |-> message, log |-> <<message>>]

\* console.log(err.message); return null;
catchReturnNull(message) ==
    [throws |-> FALSE, value |-> Null, message |-> "", log |-> <<message>>]

\* console.log(err.message);  (getAllProperties: no return statement)
catchReturnNothing(message) ==
    [throws |-> FALSE, value |-> Undefined, message |-> "", log |-> <<message>>]

onFulfilled(op, rows) ==
    CASE op = "getUserWithEmail" -> getUserWithEmailThen(rows)
      [] op = "getUserWithId" -> getUserWithIdThen(rows)
      [] op = "addUser" -> addUserThen(rows)
      [] op = "getAllReservations" -> getAllReservationsThen(rows)
      [] op = "getAllProperties" -> getAllPropertiesThen(rows)
      [] op = "addProperty" -> addPropertyThen(rows)

onRejected(op, message) ==
    IF op = "getAllProperties" THEN catchReturnNothing(message)
    ELSE catchReturnNull(message)

---------------------------------------------------------------------------
(* Calls *)

CallIds == 1..MaxCalls

\* status: idle (not called yet), pending (statement at the pool),
\* fulfilled / rejected (the promise chain before .then / .catch has run),
\* resolved / failed (the promise the function returned has settled)
IdleCall ==
    [op |-> "", args |-> <<>>, status |-> "idle", text |-> <<>>, values |-> <<>>,
     queries |-> 0, answered |-> FALSE, rows |-> <<>>, err |-> "",
     value |-> Undefined, log |-> <<>>, execAt |-> 0]

\* pool.query(queryString, values) and the promise chain hung on it
poolQuery(c, op, args, query) ==
    /\ calls[c].status = "idle"
    /\ \A d \in CallIds : d < c => calls[d].status # "idle"
    /\ calls' = [calls EXCEPT ![c] =
                    [@ EXCEPT !.op = op, !.args = args, !.status = "pending",
                              !.text = query.text, !.values = query.values,
                              !.queries = @ + 1]]
    /\ UNCHANGED <<users, properties, reservations, property_reviews, clock>>

getUserWithEmail(c, email) ==
    poolQuery(c, "getUserWithEmail", [email |-> email], getUserWithEmailQuery(email))

getUserWithId(c, id) ==
    poolQuery(c, "getUserWithId", [id |-> id], getUserWithIdQuery(id))

addUser(c, user) ==
    poolQuery(c, "addUser", [user |-> user], addUserQuery(user))

getAllReservations(c, guest_id, limit) ==
    poolQuery(c, "getAllReservations", [guest_id |-> guest_id, limit |-> limit],
              getAllReservationsQuery(guest_id, limit))

getAllProperties(c, options, limit) ==
    poolQuery(c, "getAllProperties", [options |-> options, limit |-> limit],
              getAllPropertiesQuery(options, limit))

addProperty(c, property) ==
    poolQuery(c, "addProperty", [property |-> property], addPropertyQuery(property))

\* the database executes the statement of call c and the pool settles its promise
PoolExecute(c) ==
    /\ calls[c].status = "pending"
    /\ \E out \in Execute(calls[c].text, calls[c].values) :
          /\ calls' = [calls EXCEPT ![c] =
                          [@ EXCEPT !.status = IF out.ok THEN "fulfilled" ELSE "rejected",
                                    !.answered = out.ok,
                                    !.rows = out.rows, !.err = out.err,
                                    !.execAt = clock + 1]]
          /\ users' = out.users
          /\ properties' = out.properties
    /\ clock' = clock + 1
    /\ UNCHANGED <<reservations, property_reviews>>

\* the statement never reaches the database: the pool rejects its promise
PoolFail(c) ==
    /\ calls[c].status = "pending"
    /\ calls' = [calls EXCEPT ![c] =
                    [@ EXCEPT !.status = "rejected",
                              !.err = "Connection terminated unexpectedly"]]
    /\ UNCHANGED <<users, properties, reservations, property_reviews, clock>>

\* the .then callback runs on the result
Then(c) ==
    /\ calls[c].status = "fulfilled"
    /\ LET r == onFulfilled(calls[c].op, calls[c].rows)
       IN  calls' = [calls EXCEPT ![c] =
                        [@ EXCEPT !.status = IF r.throws THEN "rejected" ELSE "resolved",
                                  !.err = r.message, !.value = r.value,
                                  !.log = @ \o r.log]]
    /\ UNCHANGED <<users, properties, reservations, property_reviews, clock>>

\* the .catch callback runs on the error of the pool or of the .then callback
Catch(c) ==
    /\ calls[c].status = "rejected"
    /\ LET r == onRejected(calls[c].op, calls[c].err)
       IN  calls' = [calls EXCEPT ![c] =
                        [@ EXCEPT !.status = IF r.throws THEN "failed" ELSE "resolved",
                                  !.value = r.value, !.log = @ \o r.log]]
    /\ UNCHANGED <<users, properties, reservations, property_reviews, clock>>

---------------------------------------------------------------------------
(* Tables and arguments the behaviours start from and draw on *)

PropertyRow(id, owner, city, cost) ==
    [c \in {"id"} \cup SetOf(propertyValues) |->
        CASE c = "id" -> Num(id)
          [] c = "owner_id" -> Num(owner)
          [] c = "city" -> Str(city)
          [] c = "cost_per_night" -> Num(cost)
          [] c \in {"parking_spaces", "number_of_bathrooms", "number_of_bedrooms"} -> Num(1)
          [] OTHER -> Str(<<"x">>)]

\* cost_per_night is in cents: 50 is below one unit, 150 and 250 above
SeedProperties ==
    {PropertyRow(1, 1, <<"a", "b">>, 50),
     PropertyRow(2, 1, <<"b">>, 150),
     PropertyRow(3, 2, <<"a">>, 250),
     PropertyRow(4, 2, <<"a", "b">>, 150)}

Review(id, pid, rating) == [id |-> id, property_id |-> pid, rating |-> rating]

\* property 3 has no review
SeedReviews == {Review(1, 1, 5), Review(2, 1, 4), Review(3, 2, 3), Review(4, 4, 4)}

Reservation(id, guest, pid, start) ==
    [id |-> id, guest_id |-> guest, property_id |-> pid,
     start_date |-> start, end_date |-> start + 1]

\* guest 1 has three reservations (one of the unreviewed property 3), guest 2 none
SeedReservations ==
    {Reservation(1, 1, 1, 3), Reservation(2, 1, 3, 1), Reservation(3, 1, 2, 3)}

SeedUsers == {[id |-> 1, name |-> "ann", email |-> "a@x", password |-> "pw"]}

Emails == {"a@x", "b@x"}

UserIds == {1, 2}

NewUsers ==
    {[name |-> "bob", password |-> "pw", email |-> "b@x"],
     [name |-> "cat", password |-> "pw", email |-> "b@x"],
     [name |-> "bob", password |-> "pw", email |-> "a@x"]}

Guests == {Num(1), Num(2)}

\* <<guest_id, limit>> for the behaviours with several calls
SomeReservationCalls ==
    {<<Num(1), Undefined>>, <<Num(1), Num(1)>>, <<Num(2), Undefined>>}

Options(owner, city, min, max, rating) ==
    [owner_id |-> owner, city |-> city, minimum_price_per_night |-> min,
     maximum_price_per_night |-> max, minimum_rating |-> rating]

NoOptions == Options(Undefined, Undefined, Undefined, Undefined, Undefined)

\* two searches for the behaviours with several calls: all, and of an owner
\* without properties
SomeOptions ==
    {NoOptions,
     Options(Num(9), Undefined, Undefined, Undefined, Undefined)}

\* every search: each filter absent, falsy (0, "") or set
OwnerChoices == {Undefined, Num(0), Num(1)}
CityChoices == {Undefined, Str(<<>>), Str(<<"a">>)}
PriceChoices == {Undefined} \cup {Num(n) : n \in 0..MaxPrice}
RatingChoices == {Undefined, Num(0), Num(4)}
LimitChoices == {Undefined, Num(1), Num(2)}

AllOptions ==
    {Options(o, c, lo, hi, r) :
        o \in OwnerChoices, c \in CityChoices, lo \in PriceChoices,
        hi \in PriceChoices, r \in RatingChoices}

NewProperty ==
    [c \in SetOf(propertyValues) |-> PropertyRow(0, 1, <<"c">>, 350)[c]]

\* the same property without its title
UntitledProperty ==
    [c \in SetOf(propertyValues) \ {"title"} |-> NewProperty[c]]

---------------------------------------------------------------------------
(* Concurrent calls of all six functions against the seeded database *)

Init ==
    /\ users = SeedUsers
    /\ properties = SeedProperties
    /\ reservations = SeedReservations
    /\ property_reviews = SeedReviews
    /\ calls = [c \in CallIds |-> IdleCall]
    /\ clock = 0

Next ==
    \E c \in CallIds :
        \/ \E email \in Emails : getUserWithEmail(c, email)
        \/ \E id \in UserIds : getUserWithId(c, id)
        \/ \E user \in NewUsers : addUser(c, user)
        \/ \E a \in SomeReservationCalls : getAllReservations(c, a[1], a[2])
        \/ \E options \in SomeOptions : getAllProperties(c, options, Undefined)
        \/ \E property \in {UntitledProperty} : addProperty(c, property)
        \/ PoolExecute(c)
        \/ PoolFail(c)
        \/ Then(c)
        \/ Catch(c)

Spec == Init /\ [][Next]_vars

---------------------------------------------------------------------------
(* One getAllProperties call, over every search *)

NextProperties ==
    \/ \E options \in AllOptions, limit \in LimitChoices :
          getAllProperties(1, options, limit)
    \/ PoolExecute(1)
    \/ PoolFail(1)
    \/ Then(1)
    \/ Catch(1)

SpecProperties == Init /\ [][NextProperties]_vars

---------------------------------------------------------------------------
(* One getAllReservations call, over reservation and review tables *)

StartDates == <<5, 1, 5, 2, 7, 3, 8, 4, 0, 6, 9, 1, 10, 11, 12, 13, 14, 15>>

\* reservation i: of guest 2 when i is in others, else of guest 1; the
\* properties are taken in turn, two reservations share a start_date
ReservationTable(n, others) ==
    {Reservation(i, IF i \in others THEN 2 ELSE 1, 1 + (i % 3),
                 StartDates[1 + ((i - 1) % Len(StartDates))]) : i \in 1..n}

ReviewChoices(pid) ==
    {{}, {Review(pid, pid, 4)}, {Review(pid, pid, 2), Review(pid + 3, pid, 5)}}

InitReservations ==
    /\ users = SeedUsers
    /\ properties = SeedProperties
    /\ \E n \in 0..MaxReservations, others \in {{}, {2}, {1, 3}} :
          reservations = ReservationTable(n, others)
    /\ \E r1 \in ReviewChoices(1), r2 \in ReviewChoices(2) :
          property_reviews = r1 \cup r2 \cup {Review(3, 3, 5)}
    /\ calls = [c \in CallIds |-> IdleCall]
    /\ clock = 0

NextReservations ==
    \/ \E guest_id \in Guests, limit \in {Undefined, Num(0), Num(1), Num(2), Num(3)} :
          getAllReservations(1, guest_id, limit)
    \/ PoolExecute(1)
    \/ PoolFail(1)
    \/ Then(1)
    \/ Catch(1)

SpecReservations == InitReservations /\ [][NextReservations]_vars

---------------------------------------------------------------------------
(* Vocabulary of the properties below *)

IsCall(c, op) == calls[c].status # "idle" /\ calls[c].op = op

\* the query of call c succeeded / failed, and the returned promise has resolved
Succeeded(c) == calls[c].status = "resolved" /\ calls[c].answered
QueryFailed(c) == calls[c].status = "resolved" /\ ~calls[c].answered

\* the filters in the order the function evaluates them
Filters(options) ==
    <<options.owner_id, options.city, options.minimum_price_per_night,
      options.maximum_price_per_night, options.minimum_rating>>

FilterColumns ==
    <<"owner_id", "city", "cost_per_night / 100", "cost_per_night / 100",
      "AVG(property_reviews.rating)">>

FilterOperators == <<"=", "LIKE", ">", "<", ">=">>

Present(options) == {i \in 1..5 : Truthy(Filters(options)[i])}

\* the 1-based position of present filter i among the present filters
Position(options, i) == Cardinality({j \in Present(options) : j <= i})

Keywords(text) == SelectSeq(text, LAMBDA t : t \in {"WHERE", "AND"})

PlaceholderTokens(text) == SelectSeq(text, IsPlaceholder)

---------------------------------------------------------------------------
(* getAllProperties: the statement text and its parameters                 *)
(* (checked under SpecProperties)                                          *)

\* C1: for every combination of present filters among owner_id, city,
\* minimum_price_per_night and maximum_price_per_night, the first present
\* condition is introduced by WHERE and each later one by AND, so WHERE
\* occurs at most once.  (Violated: after owner_id the next condition is
\* introduced by WHERE again.)
C1_WhereThenAnd ==
    \A c \in CallIds : IsCall(c, "getAllProperties") =>
        LET k == Cardinality(Present(calls[c].args.options) \ {5})
        IN  Keywords(calls[c].text) = [i \in 1..k |-> IF i = 1 THEN "WHERE" ELSE "AND"]

\* C2: each present filter pushes exactly one value, in the order owner_id,
\* city, minimum_price_per_night, maximum_price_per_night, minimum_rating,
\* limit; the placeholder in a filter's fragment is the 1-based position of
\* its value; limit is the last parameter; there are as many placeholders
\* as parameters.
C2_ParametersTrackPlaceholders ==
    \A c \in CallIds : IsCall(c, "getAllProperties") =>
        LET options == calls[c].args.options
            limit == calls[c].args.limit
            text == calls[c].text
            values == calls[c].values
            n == Cardinality(Present(options)) + 1
        IN  /\ Len(values) = n
            /\ PlaceholderTokens(text) = [k \in 1..n |-> Placeholder(k)]
            /\ \A i \in Present(options) :
                  /\ \E t \in 1..(Len(text) - 2) :
                        /\ text[t] = FilterColumns[i]
                        /\ text[t + 1] = FilterOperators[i]
                        /\ text[t + 2] = Placeholder(Position(options, i))
                  /\ values[Position(options, i)].kind = "string"
                  /\ IF i = 2
                     THEN values[Position(options, i)].chars
                              = <<"%">> \o options.city.chars \o <<"%">>
                     ELSE /\ IsNumeric(values[Position(options, i)].chars)
                          /\ CharsToNum(values[Position(options, i)].chars)
                                 = Filters(options)[i].n
            /\ values[n] = IF limit = Undefined THEN Num(10) ELSE limit
            /\ text[Len(text) - 1] = "LIMIT"
            /\ text[Len(text)] = Placeholder(n)

\* a call with all five filters present has been made
C2_Witness ==
    \E c \in CallIds :
        /\ IsCall(c, "getAllProperties")
        /\ Present(calls[c].args.options) = 1..5
        /\ Len(calls[c].values) = 6

\* C3 as stated: with no options supplied the statement contains a WHERE
\* keyword with no predicate after it.  (Violated: it contains no WHERE.)
C3_DanglingWhere ==
    \A c \in CallIds :
        IsCall(c, "getAllProperties") /\ calls[c].args.options = NoOptions =>
            \E t \in 1..Len(calls[c].text) :
                /\ calls[c].text[t] = "WHERE"
                /\ ~IsCondition(calls[c].text, t + 1)

\* C3 amended: with no options supplied the statement contains no WHERE
\* keyword: the FROM/JOIN head is followed at once by GROUP BY, ORDER BY and
\* LIMIT $1, and the database accepts it.
C3_NoWhereWithoutOptions ==
    \A c \in CallIds :
        IsCall(c, "getAllProperties") /\ calls[c].args.options = NoOptions =>
            /\ \A t \in 1..Len(calls[c].text) : calls[c].text[t] # "WHERE"
            /\ calls[c].text = getAllPropertiesHead \o
                   <<"GROUP BY properties.id", "ORDER BY cost_per_night", "LIMIT", "$1">>
            /\ calls[c].err # "syntax error"

\* a call without options has been answered with rows
C3_Witness ==
    \E c \in CallIds :
        /\ IsCall(c, "getAllProperties")
        /\ calls[c].args.options = NoOptions
        /\ Succeeded(c)
        /\ calls[c].value.kind = "array"
        /\ calls[c].value.rows # <<>>

\* C8: called with only price options, every bound supplied (0 included)
\* is applied to every returned row: cost_per_night / 100 is strictly above
\* a supplied minimum and strictly below a supplied maximum.  (Violated: a
\* bound of 0 is not applied.)
C8_PriceBoundsApplied ==
    \A c \in CallIds :
        (/\ IsCall(c, "getAllProperties")
         /\ Succeeded(c)
         /\ calls[c].args.options.owner_id = Undefined
         /\ calls[c].args.options.city = Undefined
         /\ calls[c].args.options.minimum_rating = Undefined) =>
            LET lo == calls[c].args.options.minimum_price_per_night
                hi == calls[c].args.options.maximum_price_per_night
                rows == calls[c].value.rows
            IN  \A k \in 1..Len(rows) :
                    /\ lo.kind = "number" => rows[k].cost_per_night.n > 100 * lo.n
                    /\ hi.kind = "number" => rows[k].cost_per_night.n < 100 * hi.n

---------------------------------------------------------------------------
(* What a caller observes (checked under Spec)                             *)

\* the query succeeded with zero rows
NotFound(c) == Succeeded(c) /\ calls[c].rows = <<>>

\* C4 as stated: for every operation the "not found" case and the
\* "database error" case both resolve with the null/undefined sentinel and
\* log a message.  (Violated: getAllReservations and getAllProperties resolve
\* "not found" with an empty list and log nothing.)
C4_NotFoundLikeError ==
    \A c \in CallIds :
        NotFound(c) \/ QueryFailed(c) =>
            /\ calls[c].value \in {Null, Undefined}
            /\ Len(calls[c].log) = 1

\* C4 amended: for getUserWithEmail and getUserWithId "not found" and
\* "database error" both resolve with null and log one message; for
\* getAllReservations and getAllProperties "not found" resolves with the
\* empty list and logs nothing, unlike "database error" (null, resp.
\* undefined, and one message logged).
C4_NotFoundLikeErrorForUsersOnly ==
    \A c \in CallIds :
        /\ IsCall(c, "getUserWithEmail") \/ IsCall(c, "getUserWithId") =>
              (NotFound(c) \/ QueryFailed(c) =>
                  calls[c].value = Null /\ Len(calls[c].log) = 1)
        /\ IsCall(c, "getAllReservations") \/ IsCall(c, "getAllProperties") =>
              /\ NotFound(c) => calls[c].value = Arr(<<>>) /\ calls[c].log = <<>>
              /\ QueryFailed(c) =>
                    /\ calls[c].value \in {Null, Undefined}
                    /\ Len(calls[c].log) = 1

\* a user lookup and a reservation listing have both found nothing
C4_Witness ==
    \E c, d \in CallIds :
        /\ IsCall(c, "getUserWithId") /\ NotFound(c)
        /\ calls[c].log = <<"Invalid user id">>
        /\ IsCall(d, "getAllReservations") /\ NotFound(d)

\* C5: when the pool's query fails the returned promise still resolves and
\* never rejects; the error's message is logged; the value is undefined for
\* getAllProperties and null for the other five.
C5_FailureResolvesWithSentinel ==
    \A c \in CallIds :
        /\ calls[c].status # "failed"
        /\ QueryFailed(c) =>
              /\ calls[c].log = <<calls[c].err>>
              /\ calls[c].err # ""
              /\ calls[c].value =
                    IF calls[c].op = "getAllProperties" THEN Undefined ELSE Null

\* a failed getAllProperties and a failed addProperty have both resolved
C5_Witness ==
    \E c, d \in CallIds :
        /\ IsCall(c, "getAllProperties") /\ QueryFailed(c)
        /\ calls[c].value = Undefined
        /\ IsCall(d, "addProperty") /\ QueryFailed(d)
        /\ calls[d].value = Null

\* the users rows with this email that were in the table when call c's
\* statement was executed: seeded, or inserted by an earlier statement
MatchedAt(c, email) ==
    {u \in users :
        /\ u.email = email
        /\ \/ u \in SeedUsers
           \/ \E d \in CallIds :
                 /\ IsCall(d, "addUser")
                 /\ calls[d].answered
                 /\ calls[d].rows = <<u>>
                 /\ calls[d].execAt < calls[c].execAt}

\* C6: for an email that matches no row getUserWithEmail resolves with null
\* and never rejects; when a row matches (and the query succeeds) it resolves
\* with that row (id, name, email, password), not with null.
C6_GetUserWithEmail ==
    \A c \in CallIds : IsCall(c, "getUserWithEmail") =>
        /\ calls[c].status # "failed"
        /\ calls[c].status = "resolved" =>
              LET email == calls[c].args.email
              IN  /\ (\A u \in users : u.email # email) => calls[c].value = Null
                  /\ calls[c].answered /\ MatchedAt(c, email) = {} =>
                         calls[c].value = Null
                  /\ calls[c].answered /\ MatchedAt(c, email) # {} =>
                         /\ calls[c].value.kind = "object"
                         /\ calls[c].value.row \in MatchedAt(c, email)
                         /\ DOMAIN calls[c].value.row = {"id", "name", "email", "password"}

\* one lookup has found its row and another has found none
C6_Witness ==
    \E c, d \in CallIds :
        /\ IsCall(c, "getUserWithEmail") /\ Succeeded(c)
        /\ calls[c].value.kind = "object"
        /\ IsCall(d, "getUserWithEmail") /\ NotFound(d)
        /\ calls[d].value = Null

\* C7: a successful addUser of an email the table did not hold resolves with
\* the inserted row, which carries the name, password and email passed in,
\* and a later successful getUserWithEmail of that email resolves with a
\* record of that name and email.
C7_AddUserThenGetUserWithEmail ==
    \A a \in CallIds : IsCall(a, "addUser") /\ calls[a].answered =>
        LET user == calls[a].args.user
            row == calls[a].rows[1]
        IN  /\ Len(calls[a].rows) = 1
            /\ row.name = user.name
            /\ row.email = user.email
            /\ row.password = user.password
            /\ row \in users
            /\ calls[a].status = "resolved" => calls[a].value = Obj(row)
            /\ \A g \in CallIds :
                  (/\ IsCall(g, "getUserWithEmail")
                   /\ calls[g].args.email = user.email
                   /\ Succeeded(g)
                   /\ calls[g].execAt > calls[a].execAt
                   /\ \A u \in users : u.email = user.email => u = row) =>
                      /\ calls[g].value.kind = "object"
                      /\ calls[g].value.row.name = user.name
                      /\ calls[g].value.row.email = user.email

\* a user was added under a new email and then looked up by it
C7_Witness ==
    \E a, g \in CallIds :
        /\ IsCall(a, "addUser") /\ Succeeded(a)
        /\ \A u \in SeedUsers : u.email # calls[a].args.user.email
        /\ IsCall(g, "getUserWithEmail") /\ Succeeded(g)
        /\ calls[g].args.email = calls[a].args.user.email
        /\ calls[g].execAt > calls[a].execAt
        /\ calls[g].value.kind = "object"

---------------------------------------------------------------------------
(* getAllReservations (checked under SpecReservations)                     *)

\* the reservations of a guest whose property has at least one review
Reviewed(guest) ==
    {r \in reservations :
        /\ r.guest_id = guest
        /\ \E v \in property_reviews : v.property_id = r.property_id}

\* C9: on a successful query getAllReservations resolves with at most limit
\* rows (10 when limit is omitted), all of reservations of that guest, by
\* non-decreasing start_date, one row per (property, reservation), each with
\* the average rating of the property's reviews; a reservation whose
\* property has no review is absent, and the rows left out by the limit
\* start no earlier than the rows returned.
C9_GetAllReservations ==
    \A c \in CallIds : IsCall(c, "getAllReservations") /\ Succeeded(c) =>
        LET guest == calls[c].args.guest_id.n
            limit == IF calls[c].args.limit = Undefined THEN 10
                     ELSE calls[c].args.limit.n
            rows == calls[c].value.rows
            shown == {rows[k].res_id : k \in 1..Len(rows)}
        IN  /\ calls[c].value.kind = "array"
            /\ Len(rows) <= limit
            /\ Len(rows) = limit \/ Len(rows) = Cardinality(Reviewed(guest))
            /\ \A k \in 1..Len(rows) :
                  \E r \in Reviewed(guest) :
                      LET revs == {v \in property_reviews : v.property_id = r.property_id}
                      IN  /\ rows[k].res_id = r.id
                          /\ rows[k].id = Num(r.property_id)
                          /\ rows[k].start_date = r.start_date
                          /\ rows[k].end_date = r.end_date
                          /\ rows[k].average_rating.count = Cardinality(revs)
                          /\ rows[k].average_rating.sum = SumRatings(revs)
            /\ \A j, k \in 1..Len(rows) :
                  /\ j < k => rows[j].start_date <= rows[k].start_date
                  /\ j # k => rows[j].res_id # rows[k].res_id
            /\ \A r \in Reviewed(guest) : r.id \notin shown =>
                  \A k \in 1..Len(rows) : rows[k].start_date <= r.start_date

\* a guest with more than ten reviewed reservations, and one of an
\* unreviewed property, called without a limit and got ten rows
C9_Witness ==
    \E c \in CallIds :
        /\ IsCall(c, "getAllReservations") /\ Succeeded(c)
        /\ calls[c].args.limit = Undefined
        /\ Len(calls[c].value.rows) = 10
        /\ Cardinality(Reviewed(calls[c].args.guest_id.n)) > 10
        /\ \E r \in reservations :
              r.guest_id = calls[c].args.guest_id.n /\ r \notin Reviewed(r.guest_id)

---------------------------------------------------------------------------
(* Calls in flight together (checked under Spec)                           *)

\* the statement and parameters a call's own arguments ask for
OwnQuery(c) ==
    LET args == calls[c].args
        text == calls[c].text
        values == calls[c].values
    IN  CASE calls[c].op = "getUserWithEmail" ->
                text = getUserWithEmailSQL /\ values = <<args.email>>
          [] calls[c].op = "getUserWithId" ->
                text = getUserWithIdSQL /\ values = <<args.id>>
          [] calls[c].op = "addUser" ->
                /\ text = addUserSQL
                /\ values = <<args.user.name, args.user.password, args.user.email>>
          [] calls[c].op = "getAllReservations" ->
                /\ text = getAllReservationsSQL
                /\ values = <<args.guest_id,
                              IF args.limit = Undefined THEN Num(10) ELSE args.limit>>
          [] calls[c].op = "getAllProperties" ->
                /\ Len(values) = Cardinality(Present(args.options)) + 1
                /\ PlaceholderTokens(text) = [k \in 1..Len(values) |-> Placeholder(k)]
                /\ values[Len(values)] =
                       IF args.limit = Undefined THEN Num(10) ELSE args.limit
          [] calls[c].op = "addProperty" ->
                /\ text = addPropertySQL
                /\ Len(values) = 14
                /\ \A i \in 1..14 :
                      values[i] = IF propertyValues[i] \in DOMAIN args.property
                                  THEN args.property[propertyValues[i]] ELSE Undefined

\* the value a call resolved with is the answer to its own statement
OwnResult(c) ==
    LET args == calls[c].args
        value == calls[c].value
    IN  CASE calls[c].op = "getUserWithEmail" ->
                value = Null \/ value.row.email = args.email
          [] calls[c].op = "getUserWithId" ->
                value = Null \/ value.row.id = args.id
          [] calls[c].op = "addUser" ->
                value.row.name = args.user.name /\ value.row.email = args.user.email
          [] calls[c].op = "getAllReservations" ->
                \A k \in 1..Len(value.rows) :
                    \E r \in reservations :
                        r.id = value.rows[k].res_id /\ r.guest_id = args.guest_id.n
          [] calls[c].op = "getAllProperties" ->
                \A k \in 1..Len(value.rows) :
                    /\ \E p \in properties : p.id = value.rows[k].id
                    /\ Truthy(args.options.owner_id) =>
                           value.rows[k].owner_id = args.options.owner_id
          [] calls[c].op = "addProperty" ->
                \A col \in DOMAIN args.property :
                    value.row[col] = args.property[col]

\* C10: under any interleaving and completion order each call issues exactly
\* one query (none again after a failure), whose text and parameters are
\* determined by the call's own arguments, and resolves with the result of
\* its own query.
C10_CallsAreIndependent ==
    \A c \in CallIds :
        /\ calls[c].queries = IF calls[c].status = "idle" THEN 0 ELSE 1
        /\ calls[c].status # "idle" => OwnQuery(c)
        /\ Succeeded(c) => OwnResult(c)

\* two getAllProperties calls were in flight together and the one issued
\* first was answered last
C10_Witness ==
    \E c, d \in CallIds :
        /\ c < d
        /\ IsCall(c, "getAllProperties") /\ Succeeded(c)
        /\ IsCall(d, "getAllProperties") /\ Succeeded(d)
        /\ calls[c].args # calls[d].args
        /\ calls[d].execAt < calls[c].execAt

===========================================================================
